---- MODULE Spec2Model ----
(***************************************************************************)
(* Model of the healthcare communication bot (language-bot):               *)
(*   - app/services/lm_studio.py : the completion client, the two response *)
(*     parsers and the fallback provider;                                  *)
(*   - app/routers/scenarios.py, app/routers/responses.py : the endpoints  *)
(*     that persist scenarios and responses around the completion call.    *)
(*                                                                         *)
(* Numbers that the code treats as floats (scores) are kept in TENTHS:     *)
(* 7.0 is 70, 1 is 10, 10 is 100.                                          *)
(***************************************************************************)
EXTENDS Integers, Sequences, FiniteSets, TLC

VARIABLES
    call,        \* the last direct call of the service (LMStudioService)
    scenarios,   \* table "scenarios": sequence of committed rows, id = index
    responses,   \* table "responses": sequence of committed rows, id = index
    req          \* the HTTP requests in flight, one record per request slot

vars == <<call, scenarios, responses, req>>

----------------------------------------------------------------------------
(* Bounds of the model *)

\* longest assistant text made of braces and prose only
MaxTextLen == 3
\* most whitespace characters before, and after, a submitted response text
MaxPad == 2
\* rows the two tables may hold together
MaxRows == 3

----------------------------------------------------------------------------
(* JSON values as json.loads produces them (Python objects) *)

Num(n)  == [t |-> "num",  n |-> n, s |-> ""]
Str(s)  == [t |-> "str",  n |-> 0, s |-> s]
Bool(b) == [t |-> "bool", n |-> IF b THEN 10 ELSE 0, s |-> ""]
NaN     == [t |-> "nan",  n |-> 0, s |-> ""]
Inf     == [t |-> "inf",  n |-> 0, s |-> ""]
Null    == [t |-> "null", n |-> 0, s |-> ""]
List    == [t |-> "list", n |-> 0, s |-> ""]
Obj     == [t |-> "obj",  n |-> 0, s |-> ""]

\* isinstance(v, (int, float)): bool is a subclass of int
IsIntOrFloat(v) == v.t \in {"num", "bool", "nan", "inf"}

\* v < b and v > b on Python numbers (b a finite number, in tenths);
\* every comparison with NaN is False
PyLess(v, b)    == v.t \in {"num", "bool"} /\ v.n < b
PyGreater(v, b) == \/ v.t \in {"num", "bool"} /\ v.n > b
                   \/ v.t = "inf"

\* float(v) for a value that passed isinstance(v, (int, float))
PyFloat(v) == IF v.t = "bool" THEN Num(v.n) ELSE v

\* str(v): a string stays itself, None prints as "None", a boolean as
\* "True"/"False"; the other renderings are never empty
PyStr(v) ==
    CASE v.t = "str"  -> v.s
      [] v.t = "null" -> "None"
      [] v.t = "bool" -> IF v.n = 0 THEN "False" ELSE "True"
      [] v.t = "nan"  -> "nan"
      [] v.t = "inf"  -> "inf"
      [] v.t = "list" -> "[...]"
      [] v.t = "obj"  -> "{...}"
      [] OTHER        -> "<number>"

\* dict.get(key, default)
DictGet(d, key, default) == IF key \in DOMAIN d THEN d[key] ELSE default

\* dict.update({"category": category, "difficulty": difficulty})
DictUpdate(d, category, difficulty) ==
    [k \in (DOMAIN d) \cup {"category", "difficulty"} |->
        IF k = "category" THEN Str(category)
        ELSE IF k = "difficulty" THEN Str(difficulty)
        ELSE d[k]]

----------------------------------------------------------------------------
(* Results of a Python call: a value, or an exception of some class *)

Ok(v)    == [exc |-> "None", val |-> v]
Raise(e) == [exc |-> e, val |-> <<>>]

\* the exception classes the service can meet; all derive from Exception
ExceptionClasses ==
    {"LMStudioError", "Exception", "JSONDecodeError", "ValueError",
     "KeyError", "IndexError", "AttributeError"}

\* json.JSONDecodeError is a subclass of ValueError
Catches(handler, e) ==
    \/ e \in handler
    \/ e = "JSONDecodeError" /\ "ValueError" \in handler

----------------------------------------------------------------------------
(* Assistant text: a sequence of tokens.  A token is an opening brace, a   *)
(* closing brace, a stretch of prose, or one "key": value member of a JSON *)
(* object (with its separating comma).                                     *)

LBrace == [k |-> "{", key |-> "", val |-> Null]
RBrace == [k |-> "}", key |-> "", val |-> Null]
Prose  == [k |-> "prose", key |-> "", val |-> Null]
Member(key, v) == [k |-> "member", key |-> key, val |-> v]

\* str.find('{'): 0-based index of the first '{', -1 when there is none
Find(text) ==
    IF \E i \in 1..Len(text) : text[i].k = "{"
    THEN (CHOOSE i \in 1..Len(text) :
            /\ text[i].k = "{"
            /\ \A j \in 1..(i-1) : text[j].k # "{") - 1
    ELSE -1

\* str.rfind('}'): 0-based index of the last '}', -1 when there is none
RFind(text) ==
    IF \E i \in 1..Len(text) : text[i].k = "}"
    THEN (CHOOSE i \in 1..Len(text) :
            /\ text[i].k = "}"
            /\ \A j \in (i+1)..Len(text) : text[j].k # "}") - 1
    ELSE -1

\* the whole text handed to the decoder, whatever the indexes
Mut_Slice_whole_text(text, start, end) == text

\* text[start:end] for start >= 0 and end >= 0
Slice(text, start, end) ==
    IF end <= start THEN <<>> ELSE SubSeq(text, start + 1, end)

\* json.loads(span): an object when the span is '{' members '}', else
\* JSONDecodeError; of two members with one key the last one wins
json_loads(span) ==
    IF /\ Len(span) >= 2
       /\ span[1].k = "{"
       /\ span[Len(span)].k = "}"
       /\ \A i \in 2..(Len(span) - 1) : span[i].k = "member"
    THEN LET inner == 2..(Len(span) - 1)
             keys  == {span[i].key : i \in inner}
             last(key) == CHOOSE i \in inner :
                            /\ span[i].key = key
                            /\ \A j \in inner : span[j].key = key => j <= i
         IN  Ok([key \in keys |-> span[last(key)].val])
    ELSE Raise("JSONDecodeError")

----------------------------------------------------------------------------
(* app/prompts.py: fallback texts and score *)

FALLBACK_SCENARIO_TITLE == "Fallback General Healthcare Communication"
FALLBACK_SCENARIO_DESCRIPTION ==
    "Fallback senario description : Practice professional communication with a patient in a healthcare setting."
FALLBACK_EVALUATION_SCORE == 70
FALLBACK_EVALUATION_FEEDBACK ==
    "This is a fallback evaluation response. Your response shows good communication effort. AI evaluation is temporarily unavailable, but your response has been saved for review."

\* the parser's own defaults and the range it validates (tenths)
DefaultScore == 70
DefaultFeedback == "Good communication effort."
MinScore == 10
MaxScore == 100

----------------------------------------------------------------------------
(* app/services/fallbacks.py: the Fallback Provider *)

FallbackTitle(category) ==
    CASE category = "emergency" -> "Emergency Communication"
      [] category = "routine"   -> "Routine Check-up"
      [] OTHER                  -> FALLBACK_SCENARIO_TITLE

FallbackDescription(category) ==
    CASE category = "emergency" ->
            "Practice communicating with a patient in an emergency setting."
      [] category = "routine" ->
            "Practice communication during a regular patient visit."
      [] OTHER -> FALLBACK_SCENARIO_DESCRIPTION

\* fallback_scenarios kept at module level: built once, then the dict the
\* previous call left behind
Mut_fallback_scenarios_module_level(previous) ==
    IF previous = <<>>
    THEN [key \in {"emergency", "routine", "general"} |->
            [title |-> Str(FallbackTitle(key)),
             description |-> Str(FallbackDescription(key))]]
    ELSE previous

\* fallback_scenarios = {...}: a dict literal in the body of the function,
\* built anew at every call; previous is the dict the call before left
\* behind (with whatever its caller did to the entry it got), which no
\* later call can reach
fallback_scenarios(previous) ==
    [key \in {"emergency", "routine", "general"} |->
        [title |-> Str(FallbackTitle(key)),
         description |-> Str(FallbackDescription(key))]]

\* fallback_scenarios.get(category, fallback_scenarios["general"]): the key
\* of the entry that is taken
FallbackKey(table, category) ==
    IF category \in DOMAIN table THEN category ELSE "general"

\* the fallback stamped with "general" when the category is not one of the
\* closed set
Mut_fallback_scenario_normalised(previous, category, difficulty) ==
    LET table == fallback_scenarios(previous)
    IN  DictUpdate(table[FallbackKey(table, category)],
                   FallbackKey(table, category), difficulty)

\* get_simple_fallback_scenario called when the call before left previous
\* behind: the entry of the category, updated in place with the caller's
\* category and difficulty
get_simple_fallback_scenario_after(previous, category, difficulty) ==
    LET table == fallback_scenarios(previous)
    IN  DictUpdate(table[FallbackKey(table, category)],
                   category, difficulty)

\* get_simple_fallback_scenario with no call before it
get_simple_fallback_scenario(category, difficulty) ==
    get_simple_fallback_scenario_after(<<>>, category, difficulty)

get_simple_fallback_evaluation ==
    [score |-> Num(FALLBACK_EVALUATION_SCORE),
     feedback |-> FALLBACK_EVALUATION_FEEDBACK]

----------------------------------------------------------------------------
(* app/services/lm_studio.py: LMStudioService *)

\* The outcome of the one POST to /v1/chat/completions:
\*   http    : "ok" (2xx), "timeout", "status_error" (non-2xx),
\*             "request_error" (transport), "other_error" (any other
\*             exception of the client)
\*   json    : the 2xx body decodes as JSON
\*   shape   : how far choices[0].message.content exists in the body
\*   isstr   : the content is a string
\*   text    : the content, when it is a string
Outcome(http, json, shape, isstr, text) ==
    [http |-> http, json |-> json, shape |-> shape, isstr |-> isstr,
     text |-> text]

\* _make_request without response.raise_for_status(): the body of a reply
\* of any status is returned
Mut_make_request_any_status(outcome) ==
    CASE outcome.http = "timeout"       -> Raise("LMStudioError")
      [] outcome.http = "status_error"  -> Ok(outcome)
      [] outcome.http = "request_error" -> Raise("LMStudioError")
      [] outcome.http = "other_error"   -> Raise("Exception")
      [] OTHER -> IF outcome.json THEN Ok(outcome)
                  ELSE Raise("JSONDecodeError")

\* the three handlers turn httpx.TimeoutException, httpx.HTTPStatusError
\* and httpx.RequestError into LMStudioError; response.json() of a 2xx body
\* that is no JSON raises json.JSONDecodeError, and an exception of the
\* client outside these classes has no handler
_make_request(outcome) ==
    CASE outcome.http = "timeout"       -> Raise("LMStudioError")
      [] outcome.http = "status_error"  -> Raise("LMStudioError")
      [] outcome.http = "request_error" -> Raise("LMStudioError")
      [] outcome.http = "other_error"   -> Raise("Exception")
      [] OTHER -> IF outcome.json THEN Ok(outcome)
                  ELSE Raise("JSONDecodeError")

\* response["choices"][0]["message"]["content"]
MessageContent(body) ==
    CASE body.shape = "no_choices"    -> Raise("KeyError")
      [] body.shape = "empty_choices" -> Raise("IndexError")
      [] body.shape = "no_message"    -> Raise("KeyError")
      [] body.shape = "no_content"    -> Raise("KeyError")
      [] OTHER -> Ok([isstr |-> body.isstr, text |-> body.text])

Mut_fallback_scenario_generic(category, difficulty) ==
    DictUpdate([title |-> Str(FALLBACK_SCENARIO_TITLE),
                description |-> Str(FALLBACK_SCENARIO_DESCRIPTION)],
               category, difficulty)

\* the service's copy with no entry for routine in its dict
Mut_fallback_scenario_without_routine(category, difficulty) ==
    LET scenario ==
          CASE category = "emergency" ->
                 [title |-> Str("Emergency Communication"),
                  description |-> Str("Practice communicating with a patient in an emergency setting.")]
            [] OTHER ->
                 [title |-> Str(FALLBACK_SCENARIO_TITLE),
                  description |-> Str(FALLBACK_SCENARIO_DESCRIPTION)]
    IN  DictUpdate(scenario, category, difficulty)

_get_simple_fallback_scenario(category, difficulty) ==
    LET scenario ==
          CASE category = "emergency" ->
                 [title |-> Str("Emergency Communication"),
                  description |-> Str("Practice communicating with a patient in an emergency setting.")]
            [] category = "routine" ->
                 [title |-> Str("Routine Check-up"),
                  description |-> Str("Practice communication during a regular patient visit.")]
            [] OTHER ->
                 [title |-> Str(FALLBACK_SCENARIO_TITLE),
                  description |-> Str(FALLBACK_SCENARIO_DESCRIPTION)]
    IN  DictUpdate(scenario, category, difficulty)

Mut_fallback_evaluation_default ==
    [score |-> Num(DefaultScore), feedback |-> DefaultFeedback]

_get_simple_fallback_evaluation ==
    [score |-> Num(FALLBACK_EVALUATION_SCORE),
     feedback |-> FALLBACK_EVALUATION_FEEDBACK]

\* a try block: the handler's value when the handler's classes catch the
\* exception, the result itself otherwise
Try(result, handler, handled) ==
    IF result.exc # "None" /\ Catches(handler, result.exc)
    THEN Ok(handled) ELSE result

\* dict.setdefault in place of dict.update: the model's own category and
\* difficulty survive
DictSetDefault(d, category, difficulty) ==
    [k \in (DOMAIN d) \cup {"category", "difficulty"} |->
        IF k \in DOMAIN d THEN d[k]
        ELSE IF k = "category" THEN Str(category) ELSE Str(difficulty)]

Mut_ParseScenarioBody_keeps_model_fields(content, category, difficulty) ==
    IF ~content.isstr THEN Raise("AttributeError")
    ELSE LET start_idx == Find(content.text)
             end_idx   == RFind(content.text) + 1
         IN  IF start_idx # -1 /\ end_idx # -1
             THEN LET scenario_data ==
                          json_loads(Slice(content.text, start_idx, end_idx))
                  IN  IF scenario_data.exc # "None" THEN scenario_data
                      ELSE Ok(DictSetDefault(scenario_data.val,
                                             category, difficulty))
             ELSE Raise("ValueError")

\* the body of the try block of _parse_simple_scenario_response
ParseScenarioBody(content, category, difficulty) ==
    IF ~content.isstr THEN Raise("AttributeError")
    ELSE LET start_idx == Find(content.text)
             end_idx   == RFind(content.text) + 1
         IN  IF start_idx # -1 /\ end_idx # -1
             THEN LET scenario_data ==
                          json_loads(Slice(content.text, start_idx, end_idx))
                  IN  IF scenario_data.exc # "None" THEN scenario_data
                      ELSE Ok(DictUpdate(scenario_data.val,
                                         category, difficulty))
             ELSE Raise("ValueError")

_parse_simple_scenario_response(content, category, difficulty) ==
    Try(ParseScenarioBody(content, category, difficulty),
        {"JSONDecodeError", "ValueError"},
        _get_simple_fallback_scenario(category, difficulty))

\* the body of the try block of _parse_simple_evaluation_response
ParseEvaluationBody(content) ==
    IF ~content.isstr THEN Raise("AttributeError")
    ELSE LET start_idx == Find(content.text)
             end_idx   == RFind(content.text) + 1
         IN  IF start_idx >= 0 /\ end_idx > start_idx
             THEN LET evaluation_data ==
                          json_loads(Slice(content.text, start_idx, end_idx))
                  IN  IF evaluation_data.exc # "None" THEN evaluation_data
                      ELSE LET score0 == DictGet(evaluation_data.val, "score",
                                                 Num(DefaultScore))
                               feedback == DictGet(evaluation_data.val,
                                                   "feedback",
                                                   Str(DefaultFeedback))
                               score == IF \/ ~IsIntOrFloat(score0)
                                           \/ PyLess(score0, MinScore)
                                           \/ PyGreater(score0, MaxScore)
                                        THEN Num(DefaultScore) ELSE score0
                           IN  Ok([score |-> PyFloat(score),
                                   feedback |-> PyStr(feedback)])
             ELSE Raise("ValueError")

_parse_simple_evaluation_response(content) ==
    Try(ParseEvaluationBody(content),
        {"JSONDecodeError", "ValueError", "KeyError"},
        _get_simple_fallback_evaluation)

\* the body of the try block of generate_scenario
GenerateScenarioBody(category, difficulty, outcome) ==
    LET response == _make_request(outcome)
    IN  IF response.exc # "None" THEN response
        ELSE LET scenario_text == MessageContent(response.val)
             IN  IF scenario_text.exc # "None" THEN scenario_text
                 ELSE _parse_simple_scenario_response(scenario_text.val,
                                                      category, difficulty)

\* generate_scenario with a handler for LMStudioError only
Mut_generate_scenario_narrow_except(category, difficulty, outcome) ==
    Try(GenerateScenarioBody(category, difficulty, outcome),
        {"LMStudioError"},
        _get_simple_fallback_scenario(category, difficulty))

generate_scenario(category, difficulty, outcome) ==
    Try(GenerateScenarioBody(category, difficulty, outcome),
        ExceptionClasses,
        _get_simple_fallback_scenario(category, difficulty))

\* the body of the try block of evaluate_response
EvaluateResponseBody(outcome) ==
    LET response == _make_request(outcome)
    IN  IF response.exc # "None" THEN response
        ELSE LET evaluation_text == MessageContent(response.val)
             IN  IF evaluation_text.exc # "None" THEN evaluation_text
                 ELSE _parse_simple_evaluation_response(evaluation_text.val)

evaluate_response(outcome) ==
    Try(EvaluateResponseBody(outcome),
        ExceptionClasses,
        _get_simple_fallback_evaluation)

\* the POSTs one call of _make_request sends: client.post is awaited once,
\* outside any loop, and its three handlers only raise LMStudioError
PostsOfMakeRequest == 1

\* a second _make_request when the first attempt of the try block failed
Mut_PostsOfGenerateScenario_retry(category, difficulty, outcome) ==
    IF GenerateScenarioBody(category, difficulty, outcome).exc # "None"
    THEN PostsOfMakeRequest + PostsOfMakeRequest
    ELSE PostsOfMakeRequest

\* the POSTs of one generate_scenario: _make_request is awaited once, first
\* in the try block; the parser and the except clause (which returns the
\* fallback) send none, whatever the outcome was
PostsOfGenerateScenario(category, difficulty, outcome) ==
    PostsOfMakeRequest

\* the POSTs of one evaluate_response, in the same way
PostsOfEvaluateResponse(outcome) ==
    PostsOfMakeRequest

\* EVALUATION_USER_PROMPT_TEMPLATE.format(scenario_title=...,
\* scenario_description=..., user_response=...): the prompt is the fixed
\* template around the three texts put into it
_build_simple_evaluation_prompt(scenario, user_response) ==
    [scenario_title |->
        PyStr(DictGet(scenario, "title",
                      Str("Healthcare Communication Scenario"))),
     scenario_description |->
        PyStr(DictGet(scenario, "description",
                      Str("Practice communication scenario"))),
     user_response |-> user_response]

----------------------------------------------------------------------------
(* app/schemas/__init__.py: the request schemas *)

\* the closed sets of ScenarioRequest
Categories   == {"general", "emergency", "routine"}
Difficulties == {"beginner", "intermediate"}

\* validate_category without the membership test
Mut_validate_category_accepts_all(v) == Ok(v)

\* ScenarioRequest.validate_category
validate_category(v) ==
    IF v \notin Categories THEN Raise("ValidationError") ELSE Ok(v)

\* ScenarioRequest.validate_difficulty
validate_difficulty(v) ==
    IF v \notin Difficulties THEN Raise("ValidationError") ELSE Ok(v)

\* ScenarioRequest(category=..., difficulty=...): the validated request, or
\* a validation error when a field fails its validator
ScenarioRequest(category, difficulty) ==
    LET c == validate_category(category)
        d == validate_difficulty(difficulty)
    IN  IF c.exc # "None" THEN c
        ELSE IF d.exc # "None" THEN d
        ELSE Ok([category |-> c.val, difficulty |-> d.val])

\* A submitted text by its lengths: lead whitespace characters, then core
\* characters that begin and end with a character that is no whitespace,
\* then trail whitespace characters (core = 0: whitespace only).
Text(lead, core, trail) == [lead |-> lead, core |-> core, trail |-> trail]

\* len(v)
TextLen(v) == v.lead + v.core + v.trail

\* v.strip(): without core characters everything is stripped
Strip(v) == Text(0, v.core, 0)

\* Field(..., max_length=2000, min_length=10)
min_length == 10
max_length == 2000

\* ResponseRequest.response_text: the constraints of the Field are checked
\* on the string as it was sent; validate_response_text runs after them,
\* rejects a stripped text shorter than 10 and returns the stripped text
validate_response_text(v) ==
    IF TextLen(v) < min_length THEN Raise("ValidationError")
    ELSE IF TextLen(v) > max_length THEN Raise("ValidationError")
    ELSE IF TextLen(Strip(v)) < 10 THEN Raise("ValidationError")
    ELSE Ok(Strip(v))

----------------------------------------------------------------------------
(* The inputs of the model *)

\* core lengths around the two limits, and whitespace only
CoreLengths == {0, 1, 9, 10, 11, 1998, 1999, 2000, 2001}

\* categories and difficulties handed to the Fallback Provider directly
FallbackCategories   == Categories \cup {"surgery"}
FallbackDifficulties == Difficulties \cup {"advanced"}

SubmittedTexts ==
    {Text(lead, core, trail) :
        lead \in 0..MaxPad, core \in CoreLengths, trail \in 0..MaxPad}

\* sequences over S of length 0..n
SeqUpTo(S, n) == UNION {[1..m -> S] : m \in 0..n}

\* texts made of braces and prose only: no brace, one brace, a closing
\* brace before the opening one, spans that do not decode, the empty object
\* with prose around it
StructTexts == SeqUpTo({LBrace, RBrace, Prose}, MaxTextLen)

\* m1 \o m2 between braces, bare or with prose before and after
ObjectTexts(memberLists) ==
    {<<LBrace>> \o ms \o <<RBrace>> : ms \in memberLists}
    \cup {<<Prose, LBrace>> \o ms \o <<RBrace, Prose>> : ms \in memberLists}

\* zero or one member for a key, one per value
Opt(key, values) == {<<>>} \cup {<<Member(key, v)>> : v \in values}

\* what the model may send as score: in range, the two bounds, just below
\* and above them, 12, NaN, Infinity, and the values that are no numbers
ScoreValues ==
    {Num(9), Num(10), Num(55), Num(100), Num(101), Num(120), NaN, Inf,
     Str("ten"), Bool(TRUE), Bool(FALSE), Null, List}
FeedbackValues == {Str("nice"), Str(""), Null}

EvaluationTexts ==
    StructTexts \cup
    ObjectTexts({s \o f : s \in Opt("score", ScoreValues),
                          f \in Opt("feedback", FeedbackValues)})

TitleValues       == {Str("T"), Str(""), Null}
DescriptionValues == {Str("D")}

ScenarioTexts ==
    StructTexts \cup
    ObjectTexts({t \o d \o c \o f :
                   t \in Opt("title", TitleValues),
                   d \in Opt("description", DescriptionValues),
                   c \in Opt("category", {Str("routine")}),
                   f \in Opt("difficulty", {Str("intermediate")})})

\* every way the POST can end without a message content
FailedOutcomes ==
    {Outcome(h, FALSE, "none", FALSE, <<>>) :
        h \in {"timeout", "status_error", "request_error", "other_error"}}
    \cup {Outcome("ok", FALSE, "none", FALSE, <<>>)}
    \cup {Outcome("ok", TRUE, sh, FALSE, <<>>) :
            sh \in {"no_choices", "empty_choices", "no_message", "no_content"}}
    \cup {Outcome("ok", TRUE, "content", FALSE, <<>>)}

OutcomesOf(texts) ==
    FailedOutcomes \cup {Outcome("ok", TRUE, "content", TRUE, t) : t \in texts}

ScenarioOutcomes   == OutcomesOf(ScenarioTexts)
EvaluationOutcomes == OutcomesOf(EvaluationTexts)

----------------------------------------------------------------------------
(* Direct calls of the service, as the tests of the service make them *)

NoCall == [op |-> "none", category |-> "", difficulty |-> "",
           outcome |-> Outcome("ok", FALSE, "none", FALSE, <<>>),
           result |-> Ok(<<>>), posts |-> 0, pc |-> "none"]

CallGenerateScenario ==
    \E category \in Categories, difficulty \in Difficulties,
       outcome \in ScenarioOutcomes :
        /\ call' = [op |-> "generate_scenario", category |-> category,
                    difficulty |-> difficulty, outcome |-> outcome,
                    result |-> generate_scenario(category, difficulty,
                                                 outcome),
                    posts |-> PostsOfGenerateScenario(category, difficulty,
                                                      outcome)]
        /\ UNCHANGED <<scenarios, responses, req>>

CallEvaluateResponse ==
    \E outcome \in EvaluationOutcomes :
        /\ call' = [op |-> "evaluate_response", category |-> "",
                    difficulty |-> "", outcome |-> outcome,
                    result |-> evaluate_response(outcome),
                    posts |-> PostsOfEvaluateResponse(outcome)]
        /\ UNCHANGED <<scenarios, responses, req>>

\* _make_request called on its own
CallMakeRequest ==
    \E outcome \in ScenarioOutcomes :
        /\ call' = [op |-> "_make_request", category |-> "",
                    difficulty |-> "", outcome |-> outcome,
                    result |-> _make_request(outcome),
                    posts |-> PostsOfMakeRequest]
        /\ UNCHANGED <<scenarios, responses, req>>

\* app/config.py and app/database.py: a database URL is its scheme and the
\* rest of it
Url(scheme, rest) == [scheme |-> scheme, rest |-> rest]

\* Settings.database_url's default
SqliteUrl == Url("sqlite", "/./healthcare_bot.db")

\* the settings the environment can give: DATABASE_URL left alone or set to
\* a PostgreSQL/Supabase URL, the postgres_* parts all set or not
DatabaseUrls == {SqliteUrl, Url("postgresql", "supabase")}
DatabaseSettings ==
    [database_url : DatabaseUrls, postgres_parts : BOOLEAN]

\* Settings.get_database_url
get_database_url(settings) ==
    IF settings.database_url # SqliteUrl THEN settings.database_url
    ELSE IF settings.postgres_parts THEN Url("postgresql", "parts")
    ELSE settings.database_url

\* create_engine_with_fallback: the URL of the engine it returns.  The
\* attempt to connect to PostgreSQL is commented out, so whether the server
\* accepts connections (connects) is never looked at.
create_engine_with_fallback(DATABASE_URL, connects) ==
    LET url == IF DATABASE_URL.scheme = "postgresql" THEN SqliteUrl
               ELSE DATABASE_URL
    IN  [url |-> url]

\* the module body of app/database.py, run at import
CallCreateEngine ==
    \E settings \in DatabaseSettings, connects \in BOOLEAN :
        /\ call' = [op |-> "create_engine_with_fallback", category |-> "",
                    difficulty |-> "", outcome |-> NoCall.outcome,
                    settings |-> settings, connects |-> connects,
                    result |-> Ok(create_engine_with_fallback(
                                    get_database_url(settings), connects)),
                    posts |-> 0]
        /\ UNCHANGED <<scenarios, responses, req>>

\* the dict of fallback scenarios the last call of the Fallback Provider
\* left behind
Heap == IF "heap" \in DOMAIN call THEN call.heap ELSE <<>>

\* get_simple_fallback_scenario(category, difficulty), also for values
\* outside the closed sets (the function takes any string); the entry it
\* returns is the one of its dict, so the dict is left behind with that
\* entry updated
CallFallbackScenario ==
    \E category \in FallbackCategories, difficulty \in FallbackDifficulties :
        LET table  == fallback_scenarios(Heap)
            result == get_simple_fallback_scenario_after(Heap, category,
                                                         difficulty)
        IN  /\ call' = [op |-> "get_simple_fallback_scenario",
                        category |-> category, difficulty |-> difficulty,
                        outcome |-> NoCall.outcome, result |-> Ok(result),
                        posts |-> 0,
                        heap |-> [table EXCEPT
                                    ![FallbackKey(table, category)] = result],
                        changed |-> FALSE,
                        after_change |-> ("changed" \in DOMAIN call
                                           /\ call.changed)]
            /\ UNCHANGED <<scenarios, responses, req>>

\* the caller changes the title of the scenario the Fallback Provider has
\* just returned: the returned dict is the entry of the provider's dict
CallerChangesResult ==
    /\ call.op = "get_simple_fallback_scenario"
    /\ ~call.changed
    /\ LET key == FallbackKey(call.heap, call.category)
       IN  call' = [call EXCEPT
                      !.result.val["title"] = Str("changed by the caller"),
                      !.heap[key]["title"] = Str("changed by the caller"),
                      !.changed = TRUE]
    /\ UNCHANGED <<scenarios, responses, req>>

\* get_simple_fallback_evaluation()
CallFallbackEvaluation ==
    /\ call' = [op |-> "get_simple_fallback_evaluation", category |-> "",
                difficulty |-> "", outcome |-> NoCall.outcome,
                result |-> Ok(get_simple_fallback_evaluation), posts |-> 0,
                heap |-> Heap,
                after_change |-> ("changed" \in DOMAIN call /\ call.changed)]
    /\ UNCHANGED <<scenarios, responses, req>>

\* ResponseRequest(scenario_id=..., response_text=v)
CallResponseRequest ==
    \E v \in SubmittedTexts :
        /\ call' = [op |-> "ResponseRequest", category |-> "",
                    difficulty |-> "", outcome |-> NoCall.outcome,
                    text |-> v, result |-> validate_response_text(v),
                    posts |-> 0]
        /\ UNCHANGED <<scenarios, responses, req>>

----------------------------------------------------------------------------
(* The store: app/models/__init__.py *)

\* Scenario(id, title, description, category, difficulty); the id of a row is
\* its index in the table (uuid4: fresh and never reused)
ScenarioRow(title, description, category, difficulty) ==
    [title |-> title, description |-> description,
     category |-> category, difficulty |-> difficulty]

\* Response(id, scenario_id, response_text, score, feedback); score and
\* feedback are nullable columns and start as NULL
ResponseRow(scenario_id, response_text) ==
    [scenario_id |-> scenario_id, response_text |-> response_text,
     score |-> Null, feedback |-> Null]

\* an insert that also rewrites the stored scenarios of the same category
Mut_CommitScenario_rewrites_category(table, row) ==
    [i \in 1..(Len(table) + 1) |->
        IF i = Len(table) + 1 THEN row
        ELSE IF table[i].category = row.category THEN row ELSE table[i]]

\* scenarios.py: db.add(db_scenario); db.commit()
CommitScenario(table, row) == Append(table, row)

\* app/database.py: sessionmaker(autocommit=False, autoflush=False,
\* bind=engine) leaves expire_on_commit at its default: every commit expires
\* all instances of the session
expire_on_commit == TRUE

\* instance.__dict__ of a Scenario the session has loaded: the column values
\* while the instance is fresh; once it is expired the values are gone from
\* __dict__ (reading __dict__ loads nothing) and only the instance state is
\* left
InstanceDict(row, expired) ==
    IF expired THEN [k \in {"_sa_instance_state"} |-> Obj]
    ELSE [k \in {"_sa_instance_state", "title", "description", "category",
                 "difficulty"} |->
            IF k = "_sa_instance_state" THEN Obj ELSE Str(row[k])]

\* the insert carried out twice (a commit repeated after it went through)
Mut_CommitResponse_twice(table, row) == Append(Append(table, row), row)

\* db.add without db.commit: the row is pending in the session only
Mut_CommitResponse_deferred(table, row) == table

\* responses.py: db.add(db_response); db.commit(), before the evaluation:
\* the row is in the table from here on
CommitResponse(table, row) == Append(table, row)

\* what a Float column holds after a write of v, by the database in use:
\* PostgreSQL keeps every float, SQLite binds NaN as NULL
FloatColumn(v) == IF v = NaN THEN {NaN, Null} ELSE {v}

\* the update written to the row inserted last, whichever request owns it
Mut_CommitEvaluation_latest_row(table, id, evaluation, stored) ==
    [table EXCEPT ![Len(table)].score = stored,
                  ![Len(table)].feedback = Str(evaluation.feedback)]

\* the update written to every response of the scenario
Mut_CommitEvaluation_whole_scenario(table, id, evaluation, stored) ==
    [i \in DOMAIN table |->
        IF table[i].scenario_id = table[id].scenario_id
        THEN [table[i] EXCEPT !.score = stored,
                              !.feedback = Str(evaluation.feedback)]
        ELSE table[i]]

\* db_response.score = ...; db_response.feedback = ...; db.commit();
\* stored is what the score column holds afterwards
CommitEvaluation(table, id, evaluation, stored) ==
    [table EXCEPT ![id].score = stored,
                  ![id].feedback = Str(evaluation.feedback)]

----------------------------------------------------------------------------
(* The requests *)

\* the requests that may be in flight together
Reqs == {"r1", "r2"}

\* valid response texts (10..2000 characters after trimming)
ResponseTexts == {"I would calmly assess vitals and call for help",
                  "Please tell me where it hurts"}

Idle == [kind |-> "idle", pc |-> "idle"]

\* In every record of a request, posts counts the POSTs the request has
\* sent to the completion endpoint so far: one is in flight while the
\* request awaits, and the handlers send none after the reply.

\* The replies the completion endpoint gives to the requests of the
\* endpoints: unreachable, timeout, error status, a reply without choices,
\* and one text of each kind the routers tell apart (the direct calls above
\* go through every outcome and every text)
EndpointFailures ==
    {Outcome(h, FALSE, "none", FALSE, <<>>) :
        h \in {"request_error", "timeout", "status_error"}}
    \cup {Outcome("ok", TRUE, "no_choices", FALSE, <<>>)}

EndpointScenarioOutcomes ==
    EndpointFailures \cup
    {Outcome("ok", TRUE, "content", TRUE, t) : t \in {
        <<Prose>>,
        <<LBrace, RBrace>>,
        <<LBrace, Member("title", Str("T")), Member("description", Str("D")),
          Member("category", Str("routine")),
          Member("difficulty", Str("intermediate")), RBrace>>,
        <<LBrace, Member("title", Null), Member("description", Str("D")),
          RBrace>>}}

EndpointEvaluationOutcomes ==
    EndpointFailures \cup
    {Outcome("ok", TRUE, "content", TRUE, t) : t \in {
        <<Prose>>,
        <<LBrace, Member("score", Num(120)), Member("feedback", Str("nice")),
          RBrace>>,
        <<LBrace, Member("score", NaN), RBrace>>}}

\* what the router needs of scenario_data to persist and answer: the log
\* line takes len() of the title and of the description (TypeError for None,
\* a number, a boolean), Scenario(title=scenario_data["title"], ...) needs
\* both keys (KeyError), and the commit needs both to be strings
ScenarioPersistable(scenario_data) ==
    /\ "title" \in DOMAIN scenario_data
    /\ "description" \in DOMAIN scenario_data
    /\ scenario_data["title"].t = "str"
    /\ scenario_data["description"].t = "str"

\* db.query(Scenario).first(): the filter on the id left out
Mut_FindScenario_unfiltered(table, scenario_id) ==
    IF table # <<>> THEN table[1] ELSE Null

\* the lookup falling back to the newest scenario when the id is not stored
Mut_FindScenario_newest_when_missing(table, scenario_id) ==
    IF scenario_id \in DOMAIN table THEN table[scenario_id]
    ELSE IF table # <<>> THEN table[Len(table)] ELSE Null

\* db.query(Scenario).filter(Scenario.id == request.scenario_id).first():
\* the row with that id, None when there is none
FindScenario(table, scenario_id) ==
    IF scenario_id \in DOMAIN table THEN table[scenario_id] ELSE Null

\* the answer of submit_response to an unknown scenario id: 404 "Scenario
\* not found", raised before the insert and before the completion call
NotFound ==
    [kind |-> "submit", pc |-> "done", status |-> 404, id |-> 0, posts |-> 0]

\* the rows stored, and the rows that the generation requests in flight
\* may still store
Rows ==
    Len(scenarios) + Len(responses)
    + Cardinality({r \in Reqs : req[r].kind = "generate"
                                /\ req[r].pc = "awaiting"})

\* the valid bodies sent to the generation endpoint: the category without
\* a canned scenario of its own and one with, and both difficulties (the
\* direct calls above go through all six pairs)
EndpointRequests ==
    {[category |-> "general",   difficulty |-> "beginner"],
     [category |-> "emergency", difficulty |-> "intermediate"]}

\* bodies with a category, or a difficulty, outside the closed sets
InvalidRequests ==
    {[category |-> "surgery", difficulty |-> "beginner"],
     [category |-> "general", difficulty |-> "advanced"]}

\* the answer to a body that fails validation: 422, given by the framework
\* before the handler runs
Rejected ==
    [kind |-> "rejected", pc |-> "done", status |-> 422, id |-> 0,
     posts |-> 0]

\* POST /scenarios/generate, up to the await of the completion call: the
\* body is validated as a ScenarioRequest, then the handler runs up to the
\* POST to the completion endpoint
GenerateStart(r) ==
    /\ req[r].pc = "idle"
    /\ \E body \in EndpointRequests \cup InvalidRequests :
         LET request == ScenarioRequest(body.category, body.difficulty)
         IN  IF request.exc # "None"
             THEN req' = [req EXCEPT ![r] = Rejected]
             ELSE /\ Rows < MaxRows
                  /\ req' = [req EXCEPT ![r] =
                               [kind |-> "generate", pc |-> "awaiting",
                                category |-> request.val.category,
                                difficulty |-> request.val.difficulty,
                                posts |-> PostsOfMakeRequest]]
    /\ UNCHANGED <<call, scenarios, responses>>

\* a generation request that has answered; it keeps what was asked for, the
\* category and difficulty generate_scenario returned to the router, and the
\* scenario in the body (db_scenario after the refresh)
GenerateAnswer(r, scenario_data, status, id) ==
    [kind |-> "generate", pc |-> "done", status |-> status, id |-> id,
     posts |-> req[r].posts,
     body |-> IF status = 200
              THEN ScenarioRow(scenario_data.val["title"].s,
                               scenario_data.val["description"].s,
                               scenario_data.val["category"].s,
                               scenario_data.val["difficulty"].s)
              ELSE Null,
     category |-> req[r].category, difficulty |-> req[r].difficulty,
     raised |-> scenario_data.exc,
     returned |->
        IF scenario_data.exc # "None" THEN <<Null, Null>>
        ELSE <<DictGet(scenario_data.val, "category", Null),
               DictGet(scenario_data.val, "difficulty", Null)>>]

\* POST /scenarios/generate, from the completion of the call to the answer
GenerateFinish(r) ==
    /\ req[r].kind = "generate" /\ req[r].pc = "awaiting"
    /\ \E outcome \in EndpointScenarioOutcomes :
         LET scenario_data == generate_scenario(req[r].category,
                                                req[r].difficulty, outcome)
         IN  IF /\ scenario_data.exc = "None"
                /\ ScenarioPersistable(scenario_data.val)
             THEN LET row == ScenarioRow(scenario_data.val["title"].s,
                                         scenario_data.val["description"].s,
                                         scenario_data.val["category"].s,
                                         scenario_data.val["difficulty"].s)
                  IN  /\ scenarios' = CommitScenario(scenarios, row)
                      /\ req' = [req EXCEPT ![r] =
                                   GenerateAnswer(r, scenario_data, 200,
                                                  Len(scenarios) + 1)]
             ELSE /\ scenarios' = scenarios
                  /\ req' = [req EXCEPT ![r] =
                               GenerateAnswer(r, scenario_data, 500, 0)]
    /\ UNCHANGED <<call, responses>>

\* ResponseWithEvaluation: score is None or 1.0 <= score <= 10.0; the answer
\* is 200 when the row validates and 500 when it does not.  Whether NaN
\* passes the two comparisons is left to the validation library: both
\* answers are possible
ResponseStatuses(row) ==
    CASE row.score.t = "null" -> {200}
      [] row.score.t = "num" ->
            IF row.score.n >= MinScore /\ row.score.n <= MaxScore
            THEN {200} ELSE {500}
      [] OTHER -> {200, 500}

\* POST /responses/, up to the await of the completion call: the scenario is
\* looked up, the response row is committed (the commit expires the scenario
\* the session has loaded) and the evaluation prompt is built from
\* scenario.__dict__ and the text
SubmitStart(r) ==
    /\ req[r].pc = "idle"
    /\ \E scenario_id \in 1..(MaxRows + 1), response_text \in ResponseTexts :
         LET scenario == FindScenario(scenarios, scenario_id)
         IN  IF scenario = Null
             THEN /\ req' = [req EXCEPT ![r] = NotFound]
                  /\ responses' = responses
             ELSE /\ Rows < MaxRows
                  /\ responses' = CommitResponse(responses,
                                     ResponseRow(scenario_id, response_text))
                  /\ req' = [req EXCEPT ![r] =
                               [kind |-> "submit", pc |-> "awaiting",
                                scenario_id |-> scenario_id,
                                response_text |-> response_text,
                                id |-> Len(responses) + 1,
                                prompt |-> _build_simple_evaluation_prompt(
                                    InstanceDict(scenario, expire_on_commit),
                                    response_text),
                                posts |-> PostsOfMakeRequest]]
    /\ UNCHANGED <<call, scenarios>>

\* a submission that has answered: the HTTP status, the id of its row, what
\* evaluate_response returned to it, and the response it returns
\* (db_response after the refresh)
SubmitAnswer(r, evaluation, row, status) ==
    [kind |-> "submit", pc |-> "done", status |-> status, id |-> req[r].id,
     posts |-> req[r].posts, evaluation |-> evaluation,
     body |-> row]

\* POST /responses/, from the completion of the call to the answer; the
\* commit of the score update may fail (commit_ok = FALSE): the inner
\* handler then logs, and the row is returned as it is
SubmitFinish(r) ==
    /\ req[r].kind = "submit" /\ req[r].pc = "awaiting"
    /\ \E outcome \in EndpointEvaluationOutcomes, commit_ok \in BOOLEAN :
         LET evaluation == evaluate_response(outcome)
             updated == evaluation.exc = "None" /\ commit_ok
         IN  \E stored \in (IF updated THEN FloatColumn(evaluation.val.score)
                            ELSE {Null}) :
               LET table == IF updated
                            THEN CommitEvaluation(responses, req[r].id,
                                                  evaluation.val, stored)
                            ELSE responses
               IN  /\ responses' = table
                   /\ \E status \in ResponseStatuses(table[req[r].id]) :
                        req' = [req EXCEPT ![r] =
                                  SubmitAnswer(r, evaluation,
                                               table[req[r].id], status)]
    /\ UNCHANGED <<call, scenarios>>

\* db.query(Response).first(): the filter on the id left out
Mut_FindResponse_unfiltered(table, response_id) ==
    IF table # <<>> THEN table[1] ELSE Null

\* db.query(Response).filter(Response.id == response_id).first()
FindResponse(table, response_id) ==
    IF response_id \in DOMAIN table THEN table[response_id] ELSE Null

\* an id that is empty or whitespace only
BlankId == 0

\* the answer of a read endpoint: the status, the id that was asked for and
\* the record (or the list) in the body; Null with an error body
ReadAnswer(kind, status, id, body) ==
    [kind |-> kind, pc |-> "done", status |-> status, id |-> id,
     body |-> body, posts |-> 0]

\* GET /responses/{response_id}
GetResponse(r) ==
    /\ req[r].pc = "idle"
    /\ \E response_id \in {BlankId} \cup 1..(Len(responses) + 1) :
         IF response_id = BlankId
         THEN req' = [req EXCEPT ![r] =
                        ReadAnswer("get_response", 400, response_id, Null)]
         ELSE LET response == FindResponse(responses, response_id)
              IN  IF response = Null
                  THEN req' = [req EXCEPT ![r] =
                                 ReadAnswer("get_response", 404,
                                            response_id, Null)]
                  ELSE \E status \in ResponseStatuses(response) :
                         req' = [req EXCEPT ![r] =
                                   ReadAnswer("get_response", status,
                                              response_id,
                                              IF status = 200 THEN response
                                              ELSE Null)]
    /\ UNCHANGED <<call, scenarios, responses>>

\* GET /scenarios/{scenario_id}
GetScenario(r) ==
    /\ req[r].pc = "idle"
    /\ \E scenario_id \in {BlankId} \cup 1..(Len(scenarios) + 1) :
         IF scenario_id = BlankId
         THEN req' = [req EXCEPT ![r] =
                        ReadAnswer("get_scenario", 400, scenario_id, Null)]
         ELSE LET scenario == FindScenario(scenarios, scenario_id)
              IN  IF scenario = Null
                  THEN req' = [req EXCEPT ![r] =
                                 ReadAnswer("get_scenario", 404,
                                            scenario_id, Null)]
                  ELSE req' = [req EXCEPT ![r] =
                                 ReadAnswer("get_scenario", 200,
                                            scenario_id, scenario)]
    /\ UNCHANGED <<call, scenarios, responses>>

\* Query(default=10, le=50, ge=1): the limit of a listing, absent (<<>>) or
\* sent (<<n>>)
default_limit == 10
ge_limit == 1
le_limit == 50
QueryLimit(sent) == IF sent = <<>> THEN default_limit ELSE sent[1]

LimitsSent == {<<>>, <<0>>, <<1>>, <<50>>, <<51>>}

\* server_default=func.now() of Response.submitted_at: the clock readings
\* the rows of the table may carry, in whole seconds (CURRENT_TIMESTAMP).
\* Rows are inserted one after the other, so a later row is never older,
\* and rows inserted within the same second carry the same reading.
SubmittedAt(table) ==
    {at \in [DOMAIN table -> 1..Len(table)] :
        \A i, j \in DOMAIN table : i < j => at[i] <= at[j]}

\* .order_by(Response.submitted_at.desc()): the orders the database may
\* return the rows ids in; rows of equal submitted_at come in any order
OrderBySubmittedAtDesc(ids, at) ==
    {order \in [1..Cardinality(ids) -> ids] :
        /\ \A i, j \in DOMAIN order : i # j => order[i] # order[j]
        /\ \A i, j \in DOMAIN order : i < j => at[order[i]] >= at[order[j]]}

\* .limit(limit)
Limit(order, limit) ==
    SubSeq(order, 1, IF Len(order) < limit THEN Len(order) ELSE limit)

\* the answer of a listing: what was asked and the rows returned, each with
\* its id
ListAnswer(scenario_id, sent, status, body) ==
    [kind |-> "list_responses", pc |-> "done", status |-> status,
     id |-> scenario_id, sent |-> sent, body |-> body, posts |-> 0]

\* response_model=List[ResponseWithEvaluation]: the statuses the rows can
\* be answered with
ListStatuses(rows) ==
    {st \in {200, 500} :
        IF st = 200 THEN \A i \in DOMAIN rows : 200 \in ResponseStatuses(rows[i].row)
        ELSE \E i \in DOMAIN rows : 500 \in ResponseStatuses(rows[i].row)}

\* GET /responses/scenario/{scenario_id}?limit=
ListResponses(r) ==
    /\ req[r].pc = "idle"
    /\ \E scenario_id \in 1..(Len(scenarios) + 1), sent \in LimitsSent :
         LET limit == QueryLimit(sent)
         IN  IF limit < ge_limit \/ limit > le_limit
             THEN req' = [req EXCEPT ![r] =
                            ListAnswer(scenario_id, sent, 422, <<>>)]
             ELSE IF FindScenario(scenarios, scenario_id) = Null
             THEN req' = [req EXCEPT ![r] =
                            ListAnswer(scenario_id, sent, 404, <<>>)]
             ELSE \E at \in SubmittedAt(responses) :
                  \E order \in OrderBySubmittedAtDesc(
                                  {i \in DOMAIN responses :
                                      responses[i].scenario_id = scenario_id},
                                  at) :
                    LET ids  == Limit(order, limit)
                        rows == [i \in DOMAIN ids |->
                                    [id |-> ids[i], row |-> responses[ids[i]]]]
                    IN  \E st \in ListStatuses(rows) :
                          req' = [req EXCEPT ![r] =
                                    ListAnswer(scenario_id, sent, st,
                                               IF st = 200 THEN rows
                                               ELSE <<>>)]
    /\ UNCHANGED <<call, scenarios, responses>>

\* the answer has been sent; the worker takes the next request
Complete(r) ==
    /\ req[r].pc = "done"
    /\ req' = [req EXCEPT ![r] = Idle]
    /\ UNCHANGED <<call, scenarios, responses>>

----------------------------------------------------------------------------
(* The completion call in time: LMStudioService._make_request               *)

\* self.timeout = 30.0, handed to httpx.AsyncClient(timeout=...): the client
\* gives up a network operation (connecting, sending, waiting for the next
\* chunk of the response) that makes no progress for 30 units
timeout == 30

\* a call of the service whose POST is in flight; silent counts the units
\* since the endpoint last sent data
Posting(op, category, difficulty) ==
    [op |-> op, category |-> category, difficulty |-> difficulty,
     pc |-> "posting", silent |-> 0, posts |-> PostsOfMakeRequest]

\* a call of the service that has returned
Returned(outcome, result) ==
    [op |-> call.op, category |-> call.category,
     difficulty |-> call.difficulty, pc |-> "returned", outcome |-> outcome,
     result |-> result, posts |-> call.posts]

\* generate_scenario or evaluate_response is called and awaits client.post
LivePost ==
    /\ call.pc \in {"none", "returned"}
    /\ \/ \E category \in Categories, difficulty \in Difficulties :
            call' = Posting("generate_scenario", category, difficulty)
       \/ call' = Posting("evaluate_response", "", "")
    /\ UNCHANGED <<scenarios, responses, req>>

\* a unit of time passes and the endpoint has sent nothing
LiveTick ==
    /\ call.pc = "posting"
    /\ call.silent < timeout
    /\ call' = [call EXCEPT !.silent = call.silent + 1]
    /\ UNCHANGED <<scenarios, responses, req>>

\* the endpoint sends a part of its response: the client's wait for the
\* next chunk starts again
LiveData ==
    /\ call.pc = "posting"
    /\ call.silent > 0
    /\ call' = [call EXCEPT !.silent = 0]
    /\ UNCHANGED <<scenarios, responses, req>>

\* the response is complete, or the client fails for another reason than a
\* timeout: the call returns what the service makes of it
LiveReply ==
    /\ call.pc = "posting"
    /\ \/ /\ call.op = "generate_scenario"
          /\ \E outcome \in EndpointScenarioOutcomes :
                /\ outcome.http # "timeout"
                /\ call' = Returned(outcome,
                               generate_scenario(call.category,
                                                 call.difficulty, outcome))
       \/ /\ call.op = "evaluate_response"
          /\ \E outcome \in EndpointEvaluationOutcomes :
                /\ outcome.http # "timeout"
                /\ call' = Returned(outcome, evaluate_response(outcome))
    /\ UNCHANGED <<scenarios, responses, req>>

\* 30 units without data: httpx.TimeoutException, turned into LMStudioError
\* and then into the fallback
LiveTimeout ==
    /\ call.pc = "posting"
    /\ call.silent = timeout
    /\ LET outcome == Outcome("timeout", FALSE, "none", FALSE, <<>>)
       IN  call' = Returned(outcome,
                     IF call.op = "generate_scenario"
                     THEN generate_scenario(call.category, call.difficulty,
                                            outcome)
                     ELSE evaluate_response(outcome))
    /\ UNCHANGED <<scenarios, responses, req>>

----------------------------------------------------------------------------
(* The specifications *)

Init ==
    /\ call = NoCall
    /\ scenarios = <<>>
    /\ responses = <<>>
    /\ req = [r \in Reqs |-> Idle]

\* the endpoints, with requests in flight together
Next ==
    \E r \in Reqs :
        \/ GenerateStart(r)
        \/ GenerateFinish(r)
        \/ SubmitStart(r)
        \/ SubmitFinish(r)
        \/ Complete(r)

Spec == Init /\ [][Next]_vars

\* the endpoints that write, on one worker, and the endpoints that read, on
\* the other.  The handlers that read run without an await, so each is one
\* step, at any point between the steps of the handlers that write; the
\* answer of a read is off the worker (Complete) before the next step of a
\* write handler, which leaves out no order of the handlers' steps.
Writers == {"r1"}
Readers == {"r2"}

ReadersIdle == \A q \in Readers : req[q].pc = "idle"

NextRead ==
    \/ \E r \in Writers :
          \/ ReadersIdle /\ GenerateStart(r)
          \/ ReadersIdle /\ GenerateFinish(r)
          \/ ReadersIdle /\ SubmitStart(r)
          \/ ReadersIdle /\ SubmitFinish(r)
          \/ ReadersIdle /\ Complete(r)
    \/ \E r \in Readers :
          \/ GetResponse(r)
          \/ GetScenario(r)
          \/ ListResponses(r)
          \/ Complete(r)

SpecRead == Init /\ [][NextRead]_vars

\* the service and the request schemas alone, called directly
NextSvc ==
    \/ CallCreateEngine
    \/ CallMakeRequest
    \/ CallGenerateScenario
    \/ CallEvaluateResponse
    \/ CallResponseRequest
    \/ CallFallbackScenario
    \/ CallerChangesResult
    \/ CallFallbackEvaluation

SpecSvc == Init /\ [][NextSvc]_vars

\* the completion call in time.  Time passes and a due timeout fires; the
\* endpoint is free to send data, to complete its response, or to do neither
NextLive ==
    \/ LivePost
    \/ LiveTick
    \/ LiveData
    \/ LiveReply
    \/ LiveTimeout

SpecLive ==
    /\ Init
    /\ [][NextLive]_vars
    /\ WF_vars(LiveTick)
    /\ WF_vars(LiveTimeout)

----------------------------------------------------------------------------
(* Vocabulary of the claims *)

\* the POST itself failed: unreachable, timeout, non-success status, any
\* other error of the client
CallFailed(outcome) == outcome.http # "ok"

\* the reply does not hold choices[0].message.content as a string
ShapeFailed(outcome) ==
    outcome.http = "ok" /\
    (~outcome.json \/ outcome.shape # "content" \/ ~outcome.isstr)

\* the text holds a JSON object between its first '{' and its last '}'
HasParseableObject(text) ==
    \E i, j \in 1..Len(text) :
        /\ i < j
        /\ text[i].k = "{" /\ \A m \in 1..(i - 1) : text[m].k # "{"
        /\ text[j].k = "}" /\ \A m \in (j + 1)..Len(text) : text[m].k # "}"
        /\ \A m \in (i + 1)..(j - 1) : text[m].k = "member"

\* the members of that object, in the order of the text
ObjectMembers(text) ==
    SelectSeq(text, LAMBDA tok : tok.k = "member")

\* failure kinds (1) to (5) of the completion call and the parse step
UpstreamFailed(outcome) ==
    \/ CallFailed(outcome)
    \/ ShapeFailed(outcome)
    \/ ~HasParseableObject(outcome.text)

IsGenerate == call.op = "generate_scenario"
IsEvaluate == call.op = "evaluate_response"

----------------------------------------------------------------------------
(* The claims *)

\* C1: generate_scenario and evaluate_response never propagate an error:
\* whatever the completion call does (timeout, connection failure, non-2xx
\* status, body without choices[0].message.content, content without a
\* parseable JSON object), each returns a value.
C1_NeverRaises ==
    (IsGenerate \/ IsEvaluate) => call.result.exc = "None"

\* a call whose reply had no choices (a KeyError inside the try block) and
\* that still returned a value
C1_Witness ==
    /\ IsGenerate
    /\ call.outcome.http = "ok" /\ call.outcome.shape = "no_choices"
    /\ call.result.exc = "None"

\* C2 (as claimed): for every valid (category, difficulty) and every
\* upstream reply or failure, generate_scenario returns a scenario whose
\* title and description are non-empty.
C2_TitleAndDescriptionNonEmpty ==
    IsGenerate =>
        /\ call.result.exc = "None"
        /\ "title" \in DOMAIN call.result.val
        /\ "description" \in DOMAIN call.result.val
        /\ call.result.val["title"].t = "str"
        /\ call.result.val["title"].s # ""
        /\ call.result.val["description"].t = "str"
        /\ call.result.val["description"].s # ""

\* C3 (as claimed): every valid generation request, and every submission
\* of a valid text against a stored scenario, is answered with HTTP success
\* and a persisted record, whatever the completion endpoint does.
C3_AlwaysHttpSuccess ==
    \A r \in Reqs :
        (req[r].pc = "done" /\ req[r].status \notin {404, 422}) =>
            /\ req[r].status = 200
            /\ req[r].kind = "generate" => req[r].id \in DOMAIN scenarios
            /\ req[r].kind = "submit" => req[r].id \in DOMAIN responses

\* C4 (as claimed): the score evaluate_response returns lies in [1, 10] for
\* every upstream reply.
C4_ScoreInRange ==
    IsEvaluate =>
        /\ call.result.exc = "None"
        /\ call.result.val.score.t = "num"
        /\ call.result.val.score.n >= 10
        /\ call.result.val.score.n <= 100

\* C5 (as claimed): evaluate_response returns a non-empty feedback string for
\* every upstream reply.
C5_FeedbackNonEmpty ==
    IsEvaluate =>
        /\ call.result.exc = "None"
        /\ call.result.val.feedback # ""

\* C6: the scenario generate_scenario returns to the router, and the row the
\* generation endpoint persists from it, carry exactly the category and the
\* difficulty of the request, on the success path and on the fallback path,
\* also when the model's JSON object has its own category and difficulty.
C6_CategoryDifficultyEchoed ==
    \A r \in Reqs :
        (req[r].kind = "generate" /\ req[r].pc = "done") =>
            /\ req[r].raised = "None"
            /\ req[r].returned =
                  <<Str(req[r].category), Str(req[r].difficulty)>>
            /\ req[r].status = 200 =>
                  /\ req[r].id \in DOMAIN scenarios
                  /\ scenarios[req[r].id].category = req[r].category
                  /\ scenarios[req[r].id].difficulty = req[r].difficulty

\* a persisted row with the model's title (the success path; the only reply
\* with that title names category routine and difficulty intermediate) for a
\* request that asked for general / beginner
C6_Witness ==
    \E r \in Reqs :
        /\ req[r].kind = "generate" /\ req[r].pc = "done"
        /\ req[r].status = 200
        /\ req[r].category = "general" /\ req[r].difficulty = "beginner"
        /\ scenarios[req[r].id].title = "T"
        /\ scenarios[req[r].id].category = "general"

\* C7: in submit_response the row with the user's text is committed before
\* the completion call is issued (a request that awaits the call has its row
\* in the table, with its text), and no step removes a response row or
\* changes its response_text.
C7_ResponseRowKept ==
    [][/\ \A id \in DOMAIN responses :
            /\ id \in DOMAIN responses'
            /\ responses'[id].response_text = responses[id].response_text
       /\ \A r \in Reqs :
            (req'[r].kind = "submit" /\ req'[r].pc = "awaiting") =>
                /\ req'[r].id \in DOMAIN responses'
                /\ responses'[req'[r].id].response_text
                      = req'[r].response_text]_vars

\* a submission answered after its score update failed or never happened:
\* the row is there, unevaluated, with the submitted text
C7_Witness ==
    \E r \in Reqs :
        /\ req[r].kind = "submit" /\ req[r].pc = "done"
        /\ req[r].status = 200
        /\ responses[req[r].id].score = Null
        /\ responses[req[r].id].response_text \in ResponseTexts

\* the score and the feedback C8 expects of a decoded evaluation object
C8_ExpectedScore(object) ==
    IF /\ "score" \in DOMAIN object
       /\ object["score"].t = "num"
       /\ object["score"].n >= 10 /\ object["score"].n <= 100
    THEN object["score"] ELSE Num(70)

\* C8 (as claimed): a decoded evaluation object yields its own score when
\* that is a number in [1, 10] and 7.0 when the score is absent, no number
\* (string, boolean, null, list, object) or out of range; it yields its own
\* feedback when present (a string) and the placeholder when absent.
C8_ParsedEvaluation ==
    (IsEvaluate /\ ~UpstreamFailed(call.outcome)) =>
        LET object == json_loads(<<LBrace>>
                                 \o ObjectMembers(call.outcome.text)
                                 \o <<RBrace>>).val
        IN  /\ call.result.exc = "None"
            /\ call.result.val.score = C8_ExpectedScore(object)
            /\ "feedback" \notin DOMAIN object =>
                  call.result.val.feedback = "Good communication effort."
            /\ ("feedback" \in DOMAIN object /\ object["feedback"].t = "str")
                  => call.result.val.feedback = object["feedback"].s

\* C9: whenever the completion call or the parse step fails during
\* generate_scenario(category, difficulty), the result is exactly the
\* Fallback Provider's scenario for that category and difficulty; for
\* emergency / beginner its title is "Emergency Communication" and its
\* difficulty is beginner.
C9_FallbackScenarioOnFailure ==
    (IsGenerate /\ UpstreamFailed(call.outcome)) =>
        /\ call.result.exc = "None"
        /\ call.result.val =
              get_simple_fallback_scenario(call.category, call.difficulty)
        /\ (call.category = "emergency" /\ call.difficulty = "beginner") =>
              /\ call.result.val["title"] = Str("Emergency Communication")
              /\ call.result.val["difficulty"] = Str("beginner")

\* emergency / beginner with the endpoint unreachable
C9_Witness ==
    /\ IsGenerate
    /\ call.category = "emergency" /\ call.difficulty = "beginner"
    /\ call.outcome.http = "request_error"
    /\ call.result.exc = "None"
    /\ call.result.val["title"] = Str("Emergency Communication")

\* C10: whenever the completion call or the parse step fails during
\* evaluate_response, the result is exactly the fixed fallback evaluation:
\* score 7.0 and the fixed text saying that AI evaluation is temporarily
\* unavailable and that the response has been saved.
C10_FallbackEvaluationOnFailure ==
    (IsEvaluate /\ UpstreamFailed(call.outcome)) =>
        /\ call.result.exc = "None"
        /\ call.result.val =
              [score |-> Num(70), feedback |-> FALLBACK_EVALUATION_FEEDBACK]

\* a content with a closing brace before the opening one: the parse step
\* fails and the fixed evaluation comes back
C10_Witness ==
    /\ IsEvaluate
    /\ call.outcome.http = "ok" /\ call.outcome.isstr
    /\ call.outcome.text = <<RBrace, LBrace>>
    /\ call.result.exc = "None"
    /\ call.result.val.feedback = FALLBACK_EVALUATION_FEEDBACK

\* C11 (as claimed): the evaluation prompt sent for a submitted response
\* embeds the title and the description of the stored scenario the response
\* refers to, together with the submitted response text.
C11_PromptEmbedsScenario ==
    \A r \in Reqs :
        (req[r].kind = "submit" /\ req[r].pc = "awaiting") =>
            /\ req[r].prompt.scenario_title
                  = scenarios[req[r].scenario_id].title
            /\ req[r].prompt.scenario_description
                  = scenarios[req[r].scenario_id].description
            /\ req[r].prompt.user_response = req[r].response_text

\* C12 (as claimed): a submitted response_text is accepted if and only if
\* its length after trimming leading and trailing whitespace is between 10
\* and 2000 inclusive; trimmed lengths 9 and 2001 are rejected with a
\* validation error.
C12_AcceptedIffTrimmedLengthInRange ==
    call.op = "ResponseRequest" =>
        (call.result.exc = "None"
            <=> (call.text.core >= 10 /\ call.text.core <= 2000))

\* C13: submit_response answers an unknown scenario id with 404 ("Scenario
\* not found"): a submission gets past the lookup (it inserts its row and
\* awaits the completion call) only for a scenario id that is stored, and
\* the step that answers 404 inserts no response row and issues no
\* completion call.
C13_UnknownScenarioNotFound ==
    [][\A r \in Reqs :
          (req[r].pc = "idle" /\ req'[r].kind = "submit") =>
              IF req'[r].pc = "awaiting"
              THEN /\ req'[r].scenario_id \in DOMAIN scenarios
                   /\ req'[r].posts = 1
                   /\ req'[r].id \in DOMAIN responses'
              ELSE /\ req'[r].status = 404
                   /\ req'[r].posts = 0
                   /\ responses' = responses]_vars

\* a 404 answered while the scenario table and the response table both
\* hold rows: an unknown id is told apart from the stored ones
C13_Witness ==
    \E r \in Reqs :
        /\ req[r].kind = "submit" /\ req[r].pc = "done"
        /\ req[r].status = 404 /\ req[r].posts = 0
        /\ scenarios # <<>>
        /\ responses # <<>>

\* C14: a generation request whose category is outside {general, emergency,
\* routine} or whose difficulty is outside {beginner, intermediate} is
\* rejected before any work is done: only a request with both in the closed
\* sets reaches the completion call, the step that answers 422 issues no
\* call and persists no row, and every persisted scenario has its category
\* and its difficulty in the closed sets.
C14_InvalidRequestRejected ==
    [][/\ \A r \in Reqs :
            /\ req'[r].kind = "generate" =>
                  /\ req'[r].category \in {"general", "emergency", "routine"}
                  /\ req'[r].difficulty \in {"beginner", "intermediate"}
            /\ (req[r].pc = "idle" /\ req'[r].kind = "rejected") =>
                  /\ req'[r].status = 422
                  /\ req'[r].posts = 0
                  /\ scenarios' = scenarios
       /\ \A id \in DOMAIN scenarios' :
            /\ scenarios'[id].category \in {"general", "emergency", "routine"}
            /\ scenarios'[id].difficulty \in {"beginner", "intermediate"}]_vars

\* a rejection next to a request that was let through and has persisted
\* its scenario
C14_Witness ==
    \E r, q \in Reqs :
        /\ req[r].kind = "rejected" /\ req[r].status = 422
        /\ req[q].kind = "generate" /\ req[q].pc = "done"
        /\ req[q].status = 200
        /\ scenarios # <<>>

\* C15: when two responses to one scenario are submitted concurrently, under
\* every interleaving each stored and returned response carries the score and
\* the feedback derived from the completion reply to its own request: the
\* row of a submission that still awaits its reply is unevaluated, and the
\* row of an answered submission holds the evaluation of its own reply (or
\* nothing, when its update was not committed) and is what was returned.
C15_NoCrossContamination ==
    \A r \in Reqs :
        /\ (req[r].kind = "submit" /\ req[r].pc = "awaiting") =>
              /\ responses[req[r].id].score = Null
              /\ responses[req[r].id].feedback = Null
        /\ (req[r].kind = "submit" /\ req[r].pc = "done"
                                   /\ req[r].status # 404) =>
              LET row == responses[req[r].id]
                  own == req[r].evaluation
              IN  /\ own.exc = "None"
                  /\ \/ row.score = Null /\ row.feedback = Null
                     \/ /\ row.feedback = Str(own.val.feedback)
                        /\ row.score \in FloatColumn(own.val.score)
                  /\ req[r].body.score = row.score
                  /\ req[r].body.feedback = row.feedback

\* two submissions to one scenario in flight together: the one that started
\* first still awaits its reply, the one that started second has answered
\* with the evaluation of its own reply
C15_Witness ==
    \E r, q \in Reqs :
        /\ req[r].kind = "submit" /\ req[r].pc = "awaiting"
        /\ req[q].kind = "submit" /\ req[q].pc = "done"
        /\ req[q].status = 200
        /\ req[r].id < req[q].id
        /\ responses[req[q].id].scenario_id = req[r].scenario_id
        /\ responses[req[q].id].response_text # req[r].response_text
        /\ responses[req[q].id].feedback = Str("nice")
        /\ responses[req[r].id].feedback = Null

\* C16: a response's score and feedback are set at most once, by the
\* submit_response request that created the row: once a row's score or
\* feedback is non-null no step changes either, and a row is changed only by
\* the answer of the submission that inserted it.
C16_EvaluationSetOnce ==
    [][\A id \in DOMAIN responses :
          /\ (responses[id].score # Null \/ responses[id].feedback # Null) =>
                /\ responses'[id].score = responses[id].score
                /\ responses'[id].feedback = responses[id].feedback
          /\ responses'[id] # responses[id] =>
                \E r \in Reqs :
                    /\ req[r].kind = "submit" /\ req[r].pc = "awaiting"
                    /\ req[r].id = id
                    /\ req'[r].pc = "done"]_vars

\* an evaluated row whose request is over, with a second submission to the
\* same scenario answered after it with another evaluation
C16_Witness ==
    \E id, other \in DOMAIN responses :
        /\ id < other
        /\ responses[id].scenario_id = responses[other].scenario_id
        /\ responses[id].feedback = Str("nice")
        /\ responses[other].feedback = Str(FALLBACK_EVALUATION_FEEDBACK)
        /\ \A r \in Reqs : req[r].pc = "idle"

C18_EveryCallReturns ==
    (call.pc = "posting") ~> (call.pc = "returned")

\* C19: the fallback scenario for (category, difficulty) is the canned
\* (title, description) pair of the category: "Emergency Communication" for
\* emergency, "Routine Check-up" for routine, the generic default pair for
\* general and for every other category value; the result carries the
\* caller's category and difficulty unchanged.  Both copies of the function
\* (the module's and the service's) return it.
C19_FallbackScenarioTable ==
    (call.op = "get_simple_fallback_scenario" /\ ~call.changed) =>
        LET expected ==
              [title |-> Str(
                 CASE call.category = "emergency" -> "Emergency Communication"
                   [] call.category = "routine" -> "Routine Check-up"
                   [] OTHER -> "Fallback General Healthcare Communication"),
               description |-> Str(
                 CASE call.category = "emergency" ->
                        "Practice communicating with a patient in an emergency setting."
                   [] call.category = "routine" ->
                        "Practice communication during a regular patient visit."
                   [] OTHER ->
                        "Fallback senario description : Practice professional communication with a patient in a healthcare setting."),
               category |-> Str(call.category),
               difficulty |-> Str(call.difficulty)]
        IN  /\ call.result.val = expected
            /\ _get_simple_fallback_scenario(call.category, call.difficulty)
                  = expected

\* a category outside the closed set gets the generic pair and keeps its own
\* category and difficulty
C19_Witness ==
    /\ call.op = "get_simple_fallback_scenario"
    /\ call.category = "surgery" /\ call.difficulty = "advanced"
    /\ call.result.val["title"] = Str(FALLBACK_SCENARIO_TITLE)
    /\ call.result.val["category"] = Str("surgery")
    /\ call.result.val["difficulty"] = Str("advanced")

C23_ListingNewestFirst ==
    [][\A r \in Reqs :
        (req[r].pc = "idle" /\ req'[r].kind = "list_responses") =>
           LET a     == req'[r]
               limit == IF a.sent = <<>> THEN 10 ELSE a.sent[1]
           IN  /\ a.status = 422 <=> (limit < 1 \/ limit > 50)
               /\ a.status # 422 =>
                     (a.status = 404 <=> a.id \notin DOMAIN scenarios)
               /\ a.status = 200 =>
                     /\ Len(a.body) <= limit
                     /\ \A i \in DOMAIN a.body :
                           /\ a.body[i].row = responses[a.body[i].id]
                           /\ a.body[i].row.scenario_id = a.id
                     /\ \A i, j \in DOMAIN a.body :
                           i < j => a.body[i].id > a.body[j].id]_vars

\* C24: both parsers take the span from the first '{' to the last '}' of the
\* assistant text.  When the text has no '{', no '}', its last '}' before its
\* first '{', or a span that does not decode, the result is the fallback
\* content; when the span decodes, the result is the one the span alone
\* gives, whatever stands before the first '{' and after the last '}'.
C24_ParsersTakeOuterBraces ==
    ((IsGenerate \/ IsEvaluate)
     /\ call.outcome.http = "ok" /\ call.outcome.json
     /\ call.outcome.shape = "content" /\ call.outcome.isstr) =>
        LET text   == call.outcome.text
            opens  == {i \in 1..Len(text) : text[i].k = "{"}
            closes == {i \in 1..Len(text) : text[i].k = "}"}
            first  == CHOOSE i \in opens : \A j \in opens : i <= j
            last   == CHOOSE i \in closes : \A j \in closes : j <= i
            span   == SubSeq(text, first, last)
            fails  == \/ opens = {}
                      \/ closes = {}
                      \/ last < first
                      \/ \E m \in (first + 1)..(last - 1) :
                            text[m].k # "member"
        IN  IF fails
            THEN call.result =
                   IF IsGenerate
                   THEN Ok(_get_simple_fallback_scenario(call.category,
                                                         call.difficulty))
                   ELSE Ok(_get_simple_fallback_evaluation)
            ELSE call.result =
                   IF IsGenerate
                   THEN generate_scenario(call.category, call.difficulty,
                            [call.outcome EXCEPT !.text = span])
                   ELSE evaluate_response(
                            [call.outcome EXCEPT !.text = span])

\* a scenario text with prose before and after its object, parsed to the
\* title of the object
C24_Witness ==
    /\ IsGenerate
    /\ call.outcome.http = "ok" /\ call.outcome.json
    /\ call.outcome.shape = "content" /\ call.outcome.isstr
    /\ Len(call.outcome.text) >= 4
    /\ call.outcome.text[1].k = "prose"
    /\ call.outcome.text[Len(call.outcome.text)].k = "prose"
    /\ call.result.exc = "None"
    /\ "title" \in DOMAIN call.result.val
    /\ call.result.val["title"] = Str("T")
    /\ call.result.val["title"] #
          _get_simple_fallback_scenario(call.category,
                                        call.difficulty)["title"]

\* C25 (as stated): _make_request turns every failure of the POST into
\* LMStudioError (timeout, non-2xx status, transport failure), a 2xx reply
\* returns the decoded body, and generate_scenario and evaluate_response
\* surface none of these errors.
C25_EveryFailureIsLMStudioError ==
    /\ call.op = "_make_request" =>
          IF call.outcome.http = "ok"
          THEN call.result = Ok(call.outcome)
          ELSE call.result = Raise("LMStudioError")
    /\ (IsGenerate \/ IsEvaluate) => call.result.exc = "None"

\* C25 (amended): a timeout, a non-2xx status and a transport failure each
\* leave _make_request by LMStudioError and a 2xx reply whose body is JSON
\* returns the decoded body; a 2xx reply whose body is no JSON leaves it by
\* JSONDecodeError and any other error of the client by its own class;
\* generate_scenario and evaluate_response surface none of these errors.
C25_TransportAndStatusFailuresAreLMStudioError ==
    /\ call.op = "_make_request" =>
          CASE call.outcome.http \in {"timeout", "status_error",
                                      "request_error"} ->
                  call.result = Raise("LMStudioError")
            [] call.outcome.http = "ok" /\ call.outcome.json ->
                  call.result = Ok(call.outcome)
            [] call.outcome.http = "ok" /\ ~call.outcome.json ->
                  call.result = Raise("JSONDecodeError")
            [] OTHER ->
                  /\ call.result.exc \notin {"None", "LMStudioError"}
                  /\ call.result.exc \in ExceptionClasses
    /\ (IsGenerate \/ IsEvaluate) => call.result.exc = "None"

\* _make_request left by JSONDecodeError on a 2xx reply that is no JSON
C25_Witness ==
    /\ call.op = "_make_request"
    /\ call.outcome.http = "ok" /\ ~call.outcome.json
    /\ call.result.exc = "JSONDecodeError"

\* C26: create_engine_with_fallback uses the configured PostgreSQL/Supabase
\* database when the resolved URL is a PostgreSQL URL and the connection
\* succeeds, and the local SQLite database only when the PostgreSQL
\* connection fails or SQLite is the configured URL.
C26_PostgresWhenItConnects ==
    call.op = "create_engine_with_fallback" =>
        LET resolved == get_database_url(call.settings)
        IN  IF resolved.scheme = "postgresql" /\ call.connects
            THEN call.result.val.url = resolved
            ELSE call.result.val.url = SqliteUrl

\* C27: in every reachable state of the store, the score of a response row
\* is null if and only if its feedback is null.
C27_ScoreNullIffFeedbackNull ==
    \A i \in DOMAIN responses :
        (responses[i].score = Null) <=> (responses[i].feedback = Null)

\* C28: in every reachable state, under any interleaving of generation and
\* submission requests, the scenario_id of every stored response row is the
\* id of a stored scenario row (the store itself enforces no foreign key).
C28_ResponsesReferenceStoredScenarios ==
    \A i \in DOMAIN responses :
        responses[i].scenario_id \in DOMAIN scenarios

\* a response stored for a scenario while another submission, to an id
\* that is not stored, was answered 404
C28_Witness ==
    /\ responses # <<>>
    /\ \E r \in Reqs :
          /\ req[r].kind = "submit" /\ req[r].pc = "awaiting"
          /\ responses[req[r].id].scenario_id \in DOMAIN scenarios
          /\ \E q \in Reqs \ {r} :
                req[q].kind = "submit" /\ req[q].status = 404

\* C29: each successful scenario generation adds exactly one scenario row
\* and each accepted submission exactly one response row, each under a
\* fresh id, and leaves every other scenario and response row unchanged
\* (the evaluation that follows a submission writes to the row of that
\* submission only); the retrieval and listing endpoints change no row and
\* issue no completion call.
C29_FrameOfEndpoints ==
    [][\A r \in Reqs :
        /\ (req[r].kind = "generate" /\ req[r].pc = "awaiting"
             /\ req'[r].pc = "done" /\ req'[r].status = 200) =>
               /\ Len(scenarios') = Len(scenarios) + 1
               /\ req'[r].id = Len(scenarios')
               /\ req'[r].id \notin DOMAIN scenarios
               /\ \A i \in DOMAIN scenarios : scenarios'[i] = scenarios[i]
               /\ responses' = responses
        /\ (req[r].pc = "idle" /\ req'[r].kind = "submit"
                               /\ req'[r].pc = "awaiting") =>
               /\ Len(responses') = Len(responses) + 1
               /\ req'[r].id = Len(responses')
               /\ req'[r].id \notin DOMAIN responses
               /\ \A i \in DOMAIN responses : responses'[i] = responses[i]
               /\ scenarios' = scenarios
        /\ (req[r].kind = "submit" /\ req[r].pc = "awaiting"
                                   /\ req'[r].pc = "done") =>
               /\ DOMAIN responses' = DOMAIN responses
               /\ \A i \in DOMAIN responses :
                     i # req[r].id => responses'[i] = responses[i]
               /\ scenarios' = scenarios
        /\ (req[r].pc = "idle"
             /\ req'[r].kind \in {"get_response", "get_scenario",
                                   "list_responses"}) =>
               /\ scenarios' = scenarios
               /\ responses' = responses
               /\ call' = call
               /\ req'[r].posts = 0
               /\ \A q \in Reqs \ {r} : req'[q] = req[q]]_vars

\* a listing answered after a second response was stored behind the first
C29_Witness ==
    /\ Len(scenarios) >= 1
    /\ Len(responses) >= 2
    /\ responses[1].score # Null
    /\ \E q \in Reqs :
          /\ req[q].kind = "list_responses" /\ req[q].status = 200
          /\ req[q].posts = 0
          /\ Len(req[q].body) = 2

\* C30: the two copies of the simple fallback code agree: for every
\* (category, difficulty) the module's get_simple_fallback_scenario returns
\* the value of the service's _get_simple_fallback_scenario, and
\* get_simple_fallback_evaluation the value of the service's
\* _get_simple_fallback_evaluation; so what the service returns when its
\* POST fails is what the module's functions return.
C30_FallbackCopiesAgree ==
    /\ (call.op = "get_simple_fallback_scenario" /\ ~call.changed) =>
          call.result.val =
              _get_simple_fallback_scenario(call.category, call.difficulty)
    /\ call.op = "get_simple_fallback_evaluation" =>
          call.result.val = _get_simple_fallback_evaluation
    /\ (IsGenerate /\ CallFailed(call.outcome)) =>
          call.result.val =
              get_simple_fallback_scenario(call.category, call.difficulty)
    /\ (IsEvaluate /\ CallFailed(call.outcome)) =>
          call.result.val = get_simple_fallback_evaluation

\* the module's function called for routine, which has an entry of its own
\* in both dicts
C30_Witness ==
    /\ call.op = "get_simple_fallback_scenario" /\ ~call.changed
    /\ call.category = "routine"
    /\ call.result.val["title"] = Str("Routine Check-up")
    /\ call.result.val["title"] # Str(FALLBACK_SCENARIO_TITLE)
    /\ call.result.val =
          _get_simple_fallback_scenario("routine", call.difficulty)

====
